---- MODULE Spec2Model ----
(***************************************************************************)
(* cdk-nest-docker: the stacks declared by the CDK constructors and the    *)
(* behaviour of what they declare: the image-builder build script, the     *)
(* registry event rule, the three-stage delivery pipeline and the          *)
(* self-mutating meta-pipeline.                                            *)
(*                                                                         *)
(* Strings are TLA+ strings; characters are read with SubSeq.              *)
(***************************************************************************)
EXTENDS Integers, Sequences, FiniteSets, TLC

VARIABLES
    app,        \* the application that was synthesized (its name)
    builders,   \* image-builder CodeBuild projects, by stack id
    envs,       \* environment stacks (service + delivery pipeline), by stack id
    meta,       \* the meta-pipeline's stage list (<<>> when the app has none)
    build,      \* the current build of each builder project
    buildCount, \* CODEBUILD_BUILD_NUMBER of the last build of each project
    ecr,        \* registry contents: set of [repo, tag, image]
    bus,        \* registry events not yet evaluated by the event rules
    exec,       \* executions of each delivery pipeline, oldest first
    service,    \* the image each service runs
    metaRun,    \* the meta-pipeline's execution: next stage and status
    deployed    \* ids of the stacks that are deployed

vars == <<app, builders, envs, meta, build, buildCount, ecr, bus, exec, service, metaRun, deployed>>

-----------------------------------------------------------------------------
(* Bounds *)

MaxBuilds == 1          \* builds started, over all builder projects
MaxExecutions == 1      \* executions started, over all delivery pipelines

-----------------------------------------------------------------------------
(* Strings *)

Char(s, i) == SubSeq(s, i, i)

StartsWithAt(s, i, p) ==
    /\ i + Len(p) - 1 <= Len(s)
    /\ SubSeq(s, i, i + Len(p) - 1) = p

\* sed 's/p//g': every occurrence of p removed, scanning left to right
\* mutant: sed leaving its input as it is
SedKeepAll(s, p) == s

RECURSIVE SedDeleteAll(_, _)
SedDeleteAll(s, p) ==
    IF s = "" THEN ""
    ELSE IF StartsWithAt(s, 1, p) THEN SedDeleteAll(SubSeq(s, Len(p) + 1, Len(s)), p)
    ELSE Char(s, 1) \o SedDeleteAll(SubSeq(s, 2, Len(s)), p)

-----------------------------------------------------------------------------
(* Regular expressions, as bash [[ =~ ]] and the webhook filter use them:   *)
(* literals, ".", postfix "*", and the anchors "^" and "$".  A match may    *)
(* start anywhere in the text (search, not full match).                     *)

RECURSIVE MatchHere(_, _, _, _)
MatchHere(re, i, text, j) ==
    IF i > Len(re) THEN TRUE
    ELSE IF Char(re, i) = "^" THEN j = 1 /\ MatchHere(re, i + 1, text, j)
    ELSE IF Char(re, i) = "$" THEN j = Len(text) + 1 /\ MatchHere(re, i + 1, text, j)
    ELSE IF i < Len(re) /\ Char(re, i + 1) = "*"
         THEN \E k \in j..(Len(text) + 1) :
                 /\ \A m \in j..(k - 1) : Char(re, i) = "." \/ Char(text, m) = Char(re, i)
                 /\ MatchHere(re, i + 2, text, k)
    ELSE /\ j <= Len(text)
         /\ (Char(re, i) = "." \/ Char(text, j) = Char(re, i))
         /\ MatchHere(re, i + 1, text, j + 1)

RegexSearch(text, re) == \E j \in 1..(Len(text) + 1) : MatchHere(re, 1, text, j)

-----------------------------------------------------------------------------
(* JavaScript: Object.entries / Object.keys of an object literal.  The     *)
(* literal is the sequence of <<key, value>> pairs as written, with        *)
(* distinct keys.  Keys that are array indices come first, in ascending    *)
(* numeric order; the other keys follow in the order they were written.    *)

Digits == "0123456789"

IsDigit(c) == \E d \in 1..Len(Digits) : Char(Digits, d) = c

DigitVal(c) == (CHOOSE d \in 1..Len(Digits) : Char(Digits, d) = c) - 1

IsArrayIndex(k) ==
    /\ k # ""
    /\ \A i \in 1..Len(k) : IsDigit(Char(k, i))
    /\ (Len(k) > 1 => Char(k, 1) # "0")

RECURSIVE ToNumber(_)
ToNumber(k) ==
    IF k = "" THEN 0
    ELSE 10 * ToNumber(SubSeq(k, 1, Len(k) - 1)) + DigitVal(Char(k, Len(k)))

RECURSIVE SortByIndex(_)
SortByIndex(es) ==
    IF es = <<>> THEN <<>>
    ELSE LET m == CHOOSE i \in 1..Len(es) :
                     \A j \in 1..Len(es) : ToNumber(es[i][1]) <= ToNumber(es[j][1])
         IN  <<es[m]>> \o SortByIndex(SubSeq(es, 1, m - 1) \o SubSeq(es, m + 1, Len(es)))

IndexKeyed(e) == IsArrayIndex(e[1])
StringKeyed(e) == ~IsArrayIndex(e[1])

ObjectEntries(literal) ==
    SortByIndex(SelectSeq(literal, IndexKeyed)) \o SelectSeq(literal, StringKeyed)

ObjectKeys(literal) ==
    [i \in 1..Len(literal) |-> ObjectEntries(literal)[i][1]]

-----------------------------------------------------------------------------
(* Shell words: a word is a sequence of literal parts and $VAR parts.      *)

Lit(s) == [var |-> FALSE, text |-> s]
Var(v) == [var |-> TRUE, text |-> v]

\* an unset variable expands to the empty string
Lookup(env, v) == IF v \in DOMAIN env THEN env[v] ELSE ""

RECURSIVE Expand(_, _)
Expand(word, env) ==
    IF word = <<>> THEN ""
    ELSE (IF word[1].var THEN Lookup(env, word[1].text) ELSE word[1].text)
         \o Expand(Tail(word), env)

\* a command of a buildspec phase
Cmd(op, var, arg) == [op |-> op, var |-> var, arg |-> arg]

-----------------------------------------------------------------------------
(* Registry *)

RegistryHost == "ecr/"

RepositoryUri(repoName) == RegistryHost \o repoName

\* the repository a registry URI names ("" when it is not in this registry)
RepositoryOfUri(uri) ==
    IF StartsWithAt(uri, 1, RegistryHost) THEN SubSeq(uri, Len(RegistryHost) + 1, Len(uri)) ELSE ""

\* mutant: a rule for untagged images only
LifecycleRuleUntagged ==
    [maxImageAgeDays |-> 30, rulePriority |-> 1, tagStatus |-> "UNTAGGED"]

LifecycleRule ==
    [maxImageAgeDays |-> 30, rulePriority |-> 1, tagStatus |-> "ANY"]

\* FilterGroup.inEventOf(PUSH).andBranchIs(p): a HEAD_REF filter on refs/heads/p
FilterGroupBranchIs(branchPattern) ==
    [event |-> "PUSH", headRef |-> "refs/heads/" \o branchPattern]

-----------------------------------------------------------------------------
(* The construct tree of a stack: the constructs created in the stack's    *)
(* scope, each with its id and the kind of resource it synthesizes ("" for *)
(* an import, a parameter or an output, which add no resource).            *)

Construct(id, type) == [id |-> id, type |-> type]

\* new X(scope, id) throws when the scope already holds a construct with the id
ConstructionSucceeds(constructs) ==
    \A i, j \in 1..Len(constructs) : constructs[i].id = constructs[j].id => i = j

\* the resources of the synthesized template
Resources(constructs) ==
    {constructs[i] : i \in {k \in 1..Len(constructs) : constructs[k].type # ""}}

\* mutant: the service created under the cluster's id
EnvironmentConstructsClash(appName, imageTag) ==
    LET clusterName == appName \o "-" \o imageTag \o "-Cluster"
    IN  << Construct(clusterName, "AWS::ECS::Cluster"),
           Construct(clusterName, "AWS::ECS::Service") >>

EnvironmentConstructs(appName, imageTag) ==
    LET clusterName  == appName \o "-" \o imageTag \o "-Cluster"
        serviceName  == appName \o "-" \o imageTag \o "-Service"
        pipelineName == serviceName \o "-" \o imageTag \o "-DeployPipeline"
    IN  << Construct(appName \o "-" \o imageTag \o "-Vpc", "AWS::EC2::VPC"),
           Construct(clusterName, "AWS::ECS::Cluster"),
           Construct(clusterName \o "TaskRole", "AWS::IAM::Role"),
           Construct(clusterName \o "TaskDef", "AWS::ECS::TaskDefinition"),
           Construct(clusterName \o "EcrRepository", ""),
           Construct(serviceName, "AWS::ECS::Service"),
           Construct(appName \o "-" \o imageTag \o "-ImageDefinitionsBuilder", "AWS::CodeBuild::Project"),
           Construct(pipelineName, "AWS::CodePipeline::Pipeline"),
           Construct(pipelineName \o "Trigger", "AWS::Events::Rule"),
           Construct(appName \o "-" \o imageTag \o "-LoadBalancerDNS", "") >>

BuilderConstructs(appName) ==
    << Construct(appName \o "EcrRepository", "AWS::ECR::Repository"),
       Construct("GithubToken", ""),
       Construct(appName \o "GitHubCredentials", "AWS::CodeBuild::SourceCredential"),
       Construct(appName \o "BuildProject", "AWS::CodeBuild::Project") >>

ApplicationConstructs ==
    << Construct("EcrRepo", "AWS::ECR::Repository"),
       Construct("StubImage", ""),
       Construct("StubImageDpl", "Custom::CDKECRDeployment"),
       Construct("ImgBuilder", "AWS::CodeBuild::Project"),
       Construct("Vpc", "AWS::EC2::VPC"),
       Construct("Cluster", "AWS::ECS::Cluster"),
       Construct("ECSTaskRole", "AWS::IAM::Role"),
       Construct("TaskDef", "AWS::ECS::TaskDefinition"),
       Construct("ECSService", "AWS::ECS::Service"),
       Construct("ImgDefBuilder", "AWS::CodeBuild::Project"),
       Construct("DeployImgOnECS", "AWS::CodePipeline::Pipeline"),
       Construct("DeployImgOnECSTrigger", "AWS::Events::Rule") >>

ApplicationConstructsNamed(appName) ==
    LET clusterName  == appName \o "-Cluster"
        serviceName  == appName \o "-Service"
        pipelineName == serviceName \o "-DeployPipeline"
    IN  << Construct(appName \o "EcrRepository", "AWS::ECR::Repository"),
           Construct("StubImage", ""),
           Construct("StubImageDeployment", "Custom::CDKECRDeployment"),
           Construct(appName \o "GitHubCredentials", "AWS::CodeBuild::SourceCredential"),
           Construct(appName \o "BuildProject", "AWS::CodeBuild::Project"),
           Construct(appName \o "-Vpc", "AWS::EC2::VPC"),
           Construct(clusterName, "AWS::ECS::Cluster"),
           Construct(clusterName \o "TaskRole", "AWS::IAM::Role"),
           Construct(clusterName \o "TaskDef", "AWS::ECS::TaskDefinition"),
           Construct(serviceName, "AWS::ECS::Service"),
           Construct(appName \o "-ImageDefinitionsBuilder", "AWS::CodeBuild::Project"),
           Construct(pipelineName, "AWS::CodePipeline::Pipeline"),
           Construct(pipelineName \o "Trigger", "AWS::Events::Rule"),
           Construct(appName \o "-LoadBalancerDNS", "") >>

-----------------------------------------------------------------------------
(* ImageBuilderStack: registry + build project, branchMapping -> ENV_TAG   *)

\* mutant: key and value of the entry taken the wrong way round
BranchMappingCommandSwapped(entry) ==
    Cmd("if_regex", "CODEBUILD_GIT_BRANCH", [pattern |-> entry[1], export |-> "ENV_TAG", value |-> entry[1]])

BranchMappingCommand(entry) ==
    Cmd("if_regex", "CODEBUILD_GIT_BRANCH", [pattern |-> entry[1], export |-> "ENV_TAG", value |-> entry[2]])

\* mutant: a default environment tag exported before the mapping is tested
BuilderPreBuildDefault(branchMapping) ==
    << Cmd("export", "TAG", <<Var("CODEBUILD_RESOLVED_SOURCE_VERSION")>>),
       Cmd("export", "BUILD_NUMBER", <<Var("CODEBUILD_BUILD_NUMBER")>>),
       Cmd("git_symbolic_ref", "CODEBUILD_GIT_BRANCH", <<>>),
       Cmd("if_empty_name_rev", "CODEBUILD_GIT_BRANCH", "remotes/origin/"),
       Cmd("export", "ENV_TAG", <<Lit("dev")>>) >>
    \o [i \in 1..Len(branchMapping) |-> BranchMappingCommand(ObjectEntries(branchMapping)[i])]
    \o << Cmd("env", "", <<>>) >>

\* mutant: the mapping entries tested in reverse order
BuilderPreBuildReversed(branchMapping) ==
    << Cmd("export", "TAG", <<Var("CODEBUILD_RESOLVED_SOURCE_VERSION")>>),
       Cmd("export", "BUILD_NUMBER", <<Var("CODEBUILD_BUILD_NUMBER")>>),
       Cmd("git_symbolic_ref", "CODEBUILD_GIT_BRANCH", <<>>),
       Cmd("if_empty_name_rev", "CODEBUILD_GIT_BRANCH", "remotes/origin/") >>
    \o [i \in 1..Len(branchMapping) |->
           BranchMappingCommand(ObjectEntries(branchMapping)[Len(branchMapping) + 1 - i])]
    \o << Cmd("env", "", <<>>) >>

BuilderPreBuild(branchMapping) ==
    << Cmd("export", "TAG", <<Var("CODEBUILD_RESOLVED_SOURCE_VERSION")>>),
       Cmd("export", "BUILD_NUMBER", <<Var("CODEBUILD_BUILD_NUMBER")>>),
       Cmd("git_symbolic_ref", "CODEBUILD_GIT_BRANCH", <<>>),
       Cmd("if_empty_name_rev", "CODEBUILD_GIT_BRANCH", "remotes/origin/") >>
    \o [i \in 1..Len(branchMapping) |-> BranchMappingCommand(ObjectEntries(branchMapping)[i])]
    \o << Cmd("env", "", <<>>) >>

\* mutant: a fallback tag where the environment tag is empty
BuilderBuildFallback(envTagWord) ==
    << Cmd("docker_build", "", <<Var("IMAGE_NAME"), Lit(":"), Var("TAG")>>),
       Cmd("docker_tag", <<Var("IMAGE_NAME"), Lit(":"), Var("TAG")>>,
                         <<Var("ECR_REPO_URI"), Lit(":"), Var("TAG")>>),
       Cmd("docker_tag", <<Var("IMAGE_NAME"), Lit(":"), Var("TAG")>>,
                         <<Var("ECR_REPO_URI"), Lit(":"), Var("BUILD_NUMBER")>>),
       Cmd("docker_tag", <<Var("IMAGE_NAME"), Lit(":"), Var("TAG")>>,
                         <<Var("ECR_REPO_URI"), Lit(":")>> \o envTagWord \o <<Lit("latest")>>),
       Cmd("docker_login", "", <<Var("ECR_REPO_URI")>>),
       Cmd("docker_push", "", <<Var("ECR_REPO_URI")>>) >>

\* mutant: the build-number tag left out and the login moved after the push
BuilderBuildPushFirst(envTagWord) ==
    << Cmd("docker_build", "", <<Var("IMAGE_NAME"), Lit(":"), Var("TAG")>>),
       Cmd("docker_tag", <<Var("IMAGE_NAME"), Lit(":"), Var("TAG")>>,
                         <<Var("ECR_REPO_URI"), Lit(":"), Var("TAG")>>),
       Cmd("docker_tag", <<Var("IMAGE_NAME"), Lit(":"), Var("TAG")>>,
                         <<Var("ECR_REPO_URI"), Lit(":")>> \o envTagWord),
       Cmd("docker_push", "", <<Var("ECR_REPO_URI")>>),
       Cmd("docker_login", "", <<Var("ECR_REPO_URI")>>) >>

BuilderBuild(envTagWord) ==
    << Cmd("docker_build", "", <<Var("IMAGE_NAME"), Lit(":"), Var("TAG")>>),
       Cmd("docker_tag", <<Var("IMAGE_NAME"), Lit(":"), Var("TAG")>>,
                         <<Var("ECR_REPO_URI"), Lit(":"), Var("TAG")>>),
       Cmd("docker_tag", <<Var("IMAGE_NAME"), Lit(":"), Var("TAG")>>,
                         <<Var("ECR_REPO_URI"), Lit(":"), Var("BUILD_NUMBER")>>),
       Cmd("docker_tag", <<Var("IMAGE_NAME"), Lit(":"), Var("TAG")>>,
                         <<Var("ECR_REPO_URI"), Lit(":")>> \o envTagWord),
       Cmd("docker_login", "", <<Var("ECR_REPO_URI")>>),
       Cmd("docker_push", "", <<Var("ECR_REPO_URI")>>) >>

ImageBuilderStack(props) ==
    [ constructs           |-> BuilderConstructs(props.appName),
      repositoryName       |-> props.repoName,
      lifecycleRules       |-> <<LifecycleRule>>,
      projectName          |-> props.appName \o "BuildProject",
      physicalNames        |-> { <<"repository", props.repoName>>,
                                 <<"sourceCredential", "GITHUB">>,
                                 <<"project", props.appName \o "BuildProject">> },
      webhookFilters       |-> [i \in 1..Len(props.branchMapping) |->
                                   FilterGroupBranchIs(ObjectKeys(props.branchMapping)[i])],
      environmentVariables |-> [IMAGE_NAME |-> props.repoName,
                                ECR_REPO_URI |-> RepositoryUri(props.repoName)],
      pre_build            |-> BuilderPreBuild(props.branchMapping),
      build                |-> BuilderBuild(<<Var("ENV_TAG")>>) ]

-----------------------------------------------------------------------------
(* Parts shared by ECSEnvironmentStack and ApplicationStack                *)

\* mutant: a memory target that differs from the CPU target
TargetTrackingMemory ==
    [targetUtilizationPercent |-> 80, scaleInCooldown |-> 60, scaleOutCooldown |-> 60]

\* mutant: scaling of the task count with the memory policy changed
ScalingUneven ==
    [minCapacity |-> 1, maxCapacity |-> 4,
     cpu |-> [targetUtilizationPercent |-> 70, scaleInCooldown |-> 60, scaleOutCooldown |-> 60],
     memory |-> TargetTrackingMemory]

\* autoScaleTaskCount({ maxCapacity: 4 }) + scaleOnCpuUtilization + scaleOnMemoryUtilization
TargetTracking ==
    [targetUtilizationPercent |-> 70, scaleInCooldown |-> 60, scaleOutCooldown |-> 60]

Scaling ==
    [minCapacity |-> 1, maxCapacity |-> 4, cpu |-> TargetTracking, memory |-> TargetTracking]

\* mutant: the source action left to its default tag
EcrSourceActionDefaultTag(repositoryName, imageTag) ==
    [actionName |-> "EcrSource", type |-> "EcrSource", output |-> "sourceOutput",
     repositoryName |-> repositoryName, imageTag |-> "latest"]

EcrSourceAction(repositoryName, imageTag) ==
    [actionName |-> "EcrSource", type |-> "EcrSource", output |-> "sourceOutput",
     repositoryName |-> repositoryName, imageTag |-> imageTag]

\* mutant: the manifest written with the repository name instead of its URI
CodeBuildActionImageName(projectName, repositoryName, containerName, imageTag) ==
    [actionName |-> "Build", type |-> "CodeBuild", input |-> "sourceOutput", output |-> "buildOutput",
     projectName |-> projectName,
     environmentVariables |-> [IMAGE_NAME |-> repositoryName,
                               ECR_REPO_URI |-> RepositoryUri(repositoryName)],
     post_build |-> << Cmd("echo", "", <<Lit("In Post-Build Stage")>>),
                       Cmd("printf", [name |-> containerName, file |-> "imagedefinitions.json"],
                                     <<Var("IMAGE_NAME"), Lit(":" \o imageTag)>>),
                       Cmd("cat", "", <<Lit("imagedefinitions.json")>>) >>,
     artifactFiles |-> {"imagedefinitions.json"}]

\* the post_build script of the image-definitions project and what it publishes
CodeBuildAction(projectName, repositoryName, containerName, imageTag) ==
    [actionName |-> "Build", type |-> "CodeBuild", input |-> "sourceOutput", output |-> "buildOutput",
     projectName |-> projectName,
     environmentVariables |-> [IMAGE_NAME |-> repositoryName,
                               ECR_REPO_URI |-> RepositoryUri(repositoryName)],
     post_build |-> << Cmd("echo", "", <<Lit("In Post-Build Stage")>>),
                       Cmd("printf", [name |-> containerName, file |-> "imagedefinitions.json"],
                                     <<Var("ECR_REPO_URI"), Lit(":" \o imageTag)>>),
                       Cmd("cat", "", <<Lit("imagedefinitions.json")>>) >>,
     artifactFiles |-> {"imagedefinitions.json"}]

EcsDeployAction(serviceName) ==
    [actionName |-> "Deploy", type |-> "EcsDeploy", service |-> serviceName,
     imageFile |-> [artifact |-> "buildOutput", file |-> "imagedefinitions.json"]]

\* mutant: the Build stage declared before the Source stage
StagesBuildFirst(ecrSourceAction, buildAction, deployAction) ==
    << [stageName |-> "Build",  actions |-> <<buildAction>>],
       [stageName |-> "Source", actions |-> <<ecrSourceAction>>],
       [stageName |-> "Deploy", actions |-> <<deployAction>>] >>

Stages(ecrSourceAction, buildAction, deployAction) ==
    << [stageName |-> "Source", actions |-> <<ecrSourceAction>>],
       [stageName |-> "Build",  actions |-> <<buildAction>>],
       [stageName |-> "Deploy", actions |-> <<deployAction>>] >>

\* mutant: the rule without the result filter
EventPatternAnyResult(repositoryName, imageTag) ==
    [source |-> {"aws.ecr"},
     detail |-> ("action-type" :> {"PUSH"}) @@ ("image-tag" :> {imageTag})
                @@ ("repository-name" :> {repositoryName})]

EventPattern(repositoryName, imageTag) ==
    [source |-> {"aws.ecr"},
     detail |-> ("action-type" :> {"PUSH"}) @@ ("image-tag" :> {imageTag})
                @@ ("repository-name" :> {repositoryName}) @@ ("result" :> {"SUCCESS"})]

-----------------------------------------------------------------------------
(* ECSEnvironmentStack *)

ECSEnvironmentStack(props) ==
    LET appName       == props.appName
        imageTag      == props.imageTag
        ecrRepoName   == props.ecrRepoName
        clusterName   == appName \o "-" \o imageTag \o "-Cluster"
        containerName == appName \o "-" \o imageTag \o "-Container"
        serviceName   == appName \o "-" \o imageTag \o "-Service"
        projectName   == appName \o "-" \o imageTag \o "-ImageDefinitionsBuilder"
        pipelineName  == serviceName \o "-" \o imageTag \o "-DeployPipeline"
    IN  [ constructs     |-> EnvironmentConstructs(appName, imageTag),
          stackTags      |-> [project |-> appName, env |-> imageTag],
          vpcCidr        |-> props.vpcCidr,
          clusterName    |-> clusterName,
          roleName       |-> clusterName \o "TaskRole",
          repositoryName |-> ecrRepoName,
          containerName  |-> containerName,
          containerImage |-> [repositoryName |-> ecrRepoName, tag |-> imageTag],
          serviceName    |-> serviceName,
          physicalNames  |-> { <<"cluster", clusterName>>, <<"role", clusterName \o "TaskRole">>,
                               <<"service", serviceName>>, <<"project", projectName>>,
                               <<"pipeline", pipelineName>> },
          scaling        |-> Scaling,
          pipelineName   |-> pipelineName,
          stages         |-> Stages(EcrSourceAction(ecrRepoName, imageTag),
                                    CodeBuildAction(projectName, ecrRepoName, containerName, imageTag),
                                    EcsDeployAction(serviceName)),
          eventPattern   |-> EventPattern(ecrRepoName, imageTag) ]

-----------------------------------------------------------------------------
(* ApplicationStack: registry, image builder, service and delivery         *)
(* pipeline of one environment of the meta-pipeline.  A resource declared  *)
(* without a name gets a generated one, unique to the stack.  The source   *)
(* holds the stack twice: with generated names (ApplicationStack) and with *)
(* declared names (ApplicationStackNamed).                                 *)

GeneratedName(stackPath, logicalId) == stackPath \o "-" \o logicalId

ApplicationBuilderPreBuild ==
    << Cmd("export", "TAG", <<Var("CODEBUILD_RESOLVED_SOURCE_VERSION")>>),
       Cmd("export", "BUILD_NUMBER", <<Var("CODEBUILD_BUILD_NUMBER")>>),
       Cmd("env", "", <<>>) >>

\* the body the two versions share; n gives the names of the resources and
\* which of them are declared
ApplicationStackBody(n, props) ==
    [ builder |->
        [ constructs           |-> n.constructs,
          repositoryName       |-> n.repositoryName,
          lifecycleRules       |-> <<LifecycleRule>>,
          projectName          |-> n.projectName,
          physicalNames        |-> {x \in n.declared : x[1] \in {"repository", "sourceCredential"}
                                                         \/ x = <<"project", n.projectName>>},
          webhookFilters       |-> <<FilterGroupBranchIs(props.branchName)>>,
          environmentVariables |-> [IMAGE_NAME |-> n.repositoryName,
                                    ECR_REPO_URI |-> RepositoryUri(n.repositoryName)],
          pre_build            |-> ApplicationBuilderPreBuild,
          build                |-> BuilderBuild(<<Lit("latest")>>) ],
      env |->
        [ constructs     |-> n.constructs,
          stackTags      |-> [project |-> n.projectTag, env |-> ""],
          vpcCidr        |-> "",
          clusterName    |-> n.clusterName,
          roleName       |-> n.roleName,
          repositoryName |-> n.repositoryName,
          containerName  |-> n.containerName,
          containerImage |-> [repositoryName |-> n.repositoryName, tag |-> "latest"],
          serviceName    |-> n.serviceName,
          physicalNames  |-> {x \in n.declared : x[1] \notin {"repository", "sourceCredential"}
                                                         /\ x # <<"project", n.projectName>>},
          scaling        |-> Scaling,
          pipelineName   |-> n.pipelineName,
          stages         |-> Stages(EcrSourceAction(n.repositoryName, "latest"),
                                    CodeBuildAction(n.imageDefinitionsProject,
                                                    n.repositoryName, n.containerName, "latest"),
                                    EcsDeployAction(n.serviceName)),
          eventPattern   |-> EventPattern(n.repositoryName, "latest") ] ]

ApplicationStack(stackPath, props) ==
    ApplicationStackBody(
        [ repositoryName          |-> GeneratedName(stackPath, "EcrRepo"),
          projectName             |-> GeneratedName(stackPath, "ImgBuilder"),
          clusterName             |-> GeneratedName(stackPath, "Cluster"),
          roleName                |-> GeneratedName(stackPath, "ECSTaskRole"),
          containerName           |-> "ECSContainer",
          serviceName             |-> GeneratedName(stackPath, "ECSService"),
          imageDefinitionsProject |-> GeneratedName(stackPath, "ImgDefBuilder"),
          pipelineName            |-> GeneratedName(stackPath, "DeployImgOnECS"),
          projectTag              |-> "",
          constructs              |-> ApplicationConstructs,
          declared                |-> {} ],
        props)

ApplicationStackNamed(stackPath, props) ==
    LET appName     == "NestApp"
        repoName    == "nest-app"
        clusterName == appName \o "-Cluster"
        serviceName == appName \o "-Service"
    IN  ApplicationStackBody(
            [ repositoryName          |-> repoName,
              projectName             |-> appName \o "BuildProject",
              clusterName             |-> clusterName,
              roleName                |-> clusterName \o "TaskRole",
              containerName           |-> appName \o "-Container",
              serviceName             |-> serviceName,
              imageDefinitionsProject |-> appName \o "-ImageDefinitionsBuilder",
              pipelineName            |-> serviceName \o "-DeployPipeline",
              projectTag              |-> appName,
              constructs              |-> ApplicationConstructsNamed(appName),
              declared                |-> { <<"repository", repoName>>,
                                            <<"sourceCredential", "GITHUB">>,
                                            <<"project", appName \o "BuildProject">>,
                                            <<"cluster", clusterName>>,
                                            <<"role", clusterName \o "TaskRole">>,
                                            <<"service", serviceName>>,
                                            <<"project", appName \o "-ImageDefinitionsBuilder">>,
                                            <<"pipeline", serviceName \o "-DeployPipeline">> } ],
            props)

-----------------------------------------------------------------------------
(* PipelineAppStage and PipelineStack: the meta-pipeline.  The source      *)
(* holds PipelineStack in two versions too: PipelineStack (stages Prod and *)
(* Stg) and the earlier PipelineStackNamed (NestAppProd, NestAppStaging).  *)

PipelineAppStage(id, props) ==
    [ id |-> id, stacks |-> <<[id |-> id \o "/AppStack",
                               stack |-> ApplicationStack(id \o "/AppStack", [branchName |-> props.branchName])]>>,
      branchName |-> props.branchName, tags |-> [environment |-> ""] ]

PipelineAppStageNamed(id, props) ==
    [ id |-> id, stacks |-> <<[id |-> id \o "/AppStack",
                               stack |-> ApplicationStackNamed(id \o "/AppStack", [branchName |-> props.branchName])]>>,
      branchName |-> props.branchName, tags |-> [environment |-> ""] ]

TagsAdd(stage, key, value) == [stage EXCEPT !.tags = [stage.tags EXCEPT ![key] = value]]

SynthStep ==
    [ id |-> "Synth", stacks |-> <<>>,
      input |-> [repo |-> "shustariov-andrey/cdk-nest-docker", branch |-> "master"],
      commands |-> <<"npm ci", "npm run build", "npx cdk synth">>,
      tags |-> [environment |-> ""] ]

AddStage(pipeline, stage) == Append(pipeline, stage)

\* mutant: the staging stage added before the production stage
PipelineStackStagingFirst ==
    LET pipeline == <<SynthStep>>
        prod     == TagsAdd(PipelineAppStage("Prod", [branchName |-> "master"]), "environment", "prod")
        stg      == TagsAdd(PipelineAppStage("Stg", [branchName |-> "develop"]), "environment", "staging")
    IN  AddStage(AddStage(pipeline, stg), prod)

PipelineStack ==
    LET pipeline == <<SynthStep>>
        prod     == TagsAdd(PipelineAppStage("Prod", [branchName |-> "master"]), "environment", "prod")
        stg      == TagsAdd(PipelineAppStage("Stg", [branchName |-> "develop"]), "environment", "staging")
    IN  AddStage(AddStage(pipeline, prod), stg)

PipelineStackNamed ==
    LET pipeline == <<SynthStep>>
        prod     == TagsAdd(PipelineAppStageNamed("NestAppProd", [branchName |-> "master"]),
                            "environment", "prod")
        stg      == TagsAdd(PipelineAppStageNamed("NestAppStaging", [branchName |-> "develop"]),
                            "environment", "staging")
    IN  AddStage(AddStage(pipeline, prod), stg)

-----
(* The applications.  "bin" is bin/aws-nest-docker.ts as written; "binAlt" *)
(* is the same entry point with other props; "meta" and "metaNamed" are    *)
(* the two versions of the app of the meta-pipeline.                       *)

BinBranchMapping ==
    << <<"master", "prod">>, <<"develop", "dev">>, <<"^release/.*", "uat">> >>

AltBranchMapping ==
    << <<"^release/.*", "uat">>, <<"develop", "dev">>, <<"1", "dev">> >>

\* mutant: the second environment reading a registry of its own
BinAppOtherRegistry(branchMapping, tagA, repoA, tagB, repoB) ==
    [ builders |-> ("ImageBuilderStack" :>
                      ImageBuilderStack([appName |-> "NestApp", repoName |-> "nest-cluster-repo",
                                         gitOwner |-> "shustariov-andrey",
                                         gitRepo |-> "nest-docker-boilerplate",
                                         branchMapping |-> branchMapping])),
      envs |-> ("AwsNestDockerStack" :>
                  ECSEnvironmentStack([appName |-> "NestApp", imageTag |-> tagA,
                                       vpcCidr |-> "10.0.0.0/16", ecrRepoName |-> repoA]))
               @@ ("AwsNestDockerDevStack" :>
                  ECSEnvironmentStack([appName |-> "NestApp", imageTag |-> tagB,
                                       vpcCidr |-> "10.1.0.0/16", ecrRepoName |-> "dev-repo"])),
      meta |-> <<>> ]

BinApp(branchMapping, tagA, repoA, tagB, repoB) ==
    [ builders |-> ("ImageBuilderStack" :>
                      ImageBuilderStack([appName |-> "NestApp", repoName |-> "nest-cluster-repo",
                                         gitOwner |-> "shustariov-andrey",
                                         gitRepo |-> "nest-docker-boilerplate",
                                         branchMapping |-> branchMapping])),
      envs |-> ("AwsNestDockerStack" :>
                  ECSEnvironmentStack([appName |-> "NestApp", imageTag |-> tagA,
                                       vpcCidr |-> "10.0.0.0/16", ecrRepoName |-> repoA]))
               @@ ("AwsNestDockerDevStack" :>
                  ECSEnvironmentStack([appName |-> "NestApp", imageTag |-> tagB,
                                       vpcCidr |-> "10.1.0.0/16", ecrRepoName |-> repoB])),
      meta |-> <<>> ]

MetaApp(pipelineStack) ==
    LET stacks == [i \in 2..Len(pipelineStack) |-> pipelineStack[i].stacks[1]]
        ids    == {stacks[i].id : i \in DOMAIN stacks}
        of(id) == (CHOOSE i \in DOMAIN stacks : stacks[i].id = id)
    IN  [ builders |-> [id \in ids |-> stacks[of(id)].stack.builder],
          envs     |-> [id \in ids |-> stacks[of(id)].stack.env],
          meta     |-> pipelineStack ]

AppNames == {"bin", "binAlt", "meta", "metaNamed"}

App(name) ==
    CASE name = "bin"    -> BinApp(BinBranchMapping, "prod", "nest-cluster-repo", "dev", "nest-cluster-repo")
      [] name = "binAlt" -> BinApp(AltBranchMapping, "uat", "nest-cluster-repo", "dev", "other-repo")
      [] name = "meta"   -> MetaApp(PipelineStack)
      [] name = "metaNamed" -> MetaApp(PipelineStackNamed)

BranchMappingOf(name) ==
    CASE name = "bin"    -> BinBranchMapping
      [] name = "binAlt" -> AltBranchMapping
      [] name = "meta"   -> <<>>
      [] name = "metaNamed" -> <<>>

-----------------------------------------------------------------------------
(* Inputs *)

Branches == {"master", "develop", "release/1", "feature", "hotfix/master", "release/develop"}
Commits == {"c1", "c2"}

NoBuild ==
    [ status |-> "NONE", trigger |-> "", phase |-> "pre_build", pc |-> 1, env |-> <<>>,
      branch |-> "", detached |-> FALSE, local |-> <<>>, loggedIn |-> FALSE, log |-> <<>> ]

\* cdk synth: every stack of the application is constructed
Synthesizes ==
    /\ \A b \in DOMAIN builders : ConstructionSucceeds(builders[b].constructs)
    /\ \A p \in DOMAIN envs : ConstructionSucceeds(envs[p].constructs)

IdleMeta == [stage |-> 1, status |-> "Idle"]

Init ==
    /\ app \in AppNames
    /\ builders = App(app).builders
    /\ envs = App(app).envs
    /\ meta = App(app).meta
    /\ build = [b \in DOMAIN builders |-> NoBuild]
    /\ buildCount = [b \in DOMAIN builders |-> 0]
    /\ ecr = {}
    /\ bus = {}
    /\ exec = [p \in DOMAIN envs |-> <<>>]
    /\ service = [p \in DOMAIN envs |->
                     [image |-> RepositoryUri(envs[p].containerImage.repositoryName)
                                \o ":" \o envs[p].containerImage.tag,
                      running |-> "none"]]
    /\ metaRun = IdleMeta
    /\ deployed = IF meta = <<>> /\ Synthesizes THEN DOMAIN builders \cup DOMAIN envs ELSE {}

-----------------------------------------------------------------------------
(* Builds of a builder project *)

Put(f, k, v) == IF k \in DOMAIN f THEN [f EXCEPT ![k] = v] ELSE f @@ (k :> v)

\* HEAD_REF webhook filter: the pattern is searched in the pushed ref
WebhookAccepts(filterGroup, event, branch) ==
    /\ filterGroup.event = event
    /\ RegexSearch("refs/heads/" \o branch, filterGroup.headRef)

WebhookTriggers(project, event, branch) ==
    \E i \in 1..Len(project.webhookFilters) : WebhookAccepts(project.webhookFilters[i], event, branch)

NewBuild(b, trigger, branch, commit, detached) ==
    [ status |-> "RUNNING", trigger |-> trigger, phase |-> "pre_build", pc |-> 1,
      env |-> [CODEBUILD_RESOLVED_SOURCE_VERSION |-> commit,
               CODEBUILD_BUILD_NUMBER |-> ToString(buildCount[b] + 1),
               IMAGE_NAME |-> builders[b].environmentVariables.IMAGE_NAME,
               ECR_REPO_URI |-> builders[b].environmentVariables.ECR_REPO_URI],
      branch |-> branch, detached |-> detached, local |-> <<>>, loggedIn |-> FALSE, log |-> <<>> ]

RECURSIVE SumOver(_, _)
SumOver(f, S) ==
    IF S = {} THEN 0
    ELSE LET x == CHOOSE y \in S : TRUE IN f[x] + SumOver(f, S \ {x})

BuildsStarted == SumOver(buildCount, DOMAIN buildCount)

\* Builds run in containers of their own and meet only in the registry, which a
\* build touches in its push step alone: they are modelled one at a time.
CanStartBuild(b) ==
    /\ b \in deployed
    /\ \A c \in DOMAIN builders : build[c].status # "RUNNING"
    /\ BuildsStarted < MaxBuilds

\* a push to the application repository, seen by the project's webhook
WebhookPush(b, branch, commit, detached) ==
    /\ CanStartBuild(b)
    /\ WebhookTriggers(builders[b], "PUSH", branch)
    /\ build' = [build EXCEPT ![b] = NewBuild(b, "webhook", branch, commit, detached)]
    /\ buildCount' = [buildCount EXCEPT ![b] = @ + 1]
    /\ UNCHANGED <<app, builders, envs, meta, ecr, bus, exec, service, metaRun, deployed>>

\* a build started by hand on any branch
StartBuild(b, branch, commit, detached) ==
    /\ CanStartBuild(b)
    /\ build' = [build EXCEPT ![b] = NewBuild(b, "manual", branch, commit, detached)]
    /\ buildCount' = [buildCount EXCEPT ![b] = @ + 1]
    /\ UNCHANGED <<app, builders, envs, meta, ecr, bus, exec, service, metaRun, deployed>>

CurrentCommand(b) == builders[b][build[b].phase][build[b].pc]

\* the command succeeded: go to the next one, the next phase, or the end
Advance(b, st) ==
    LET done == [st EXCEPT !.log = Append(@, CurrentCommand(b).op)]
    IN  IF st.pc < Len(builders[b][st.phase]) THEN [done EXCEPT !.pc = @ + 1]
        ELSE IF st.phase = "pre_build" THEN [done EXCEPT !.phase = "build", !.pc = 1]
        ELSE [done EXCEPT !.status = "SUCCEEDED"]

\* a failed command ends the build
Fail(st) == [st EXCEPT !.status = "FAILED"]

\* git symbolic-ref HEAD --short 2>/dev/null
GitSymbolicRef(st) == IF st.detached THEN "" ELSE st.branch

\* git rev-parse HEAD | xargs git name-rev | cut -d' ' -f2
GitNameRev(st) == {st.branch, "remotes/origin/" \o st.branch}

\* docker references: name[:tag]
RECURSIVE LastColon(_)
LastColon(s) ==
    IF s = "" THEN 0
    ELSE IF Char(s, Len(s)) = ":" THEN Len(s)
    ELSE LastColon(SubSeq(s, 1, Len(s) - 1))

RefName(ref) == IF LastColon(ref) = 0 THEN ref ELSE SubSeq(ref, 1, LastColon(ref) - 1)
RefTag(ref) == IF LastColon(ref) = 0 THEN "latest" ELSE SubSeq(ref, LastColon(ref) + 1, Len(ref))
ValidRef(ref) == RefName(ref) # "" /\ RefTag(ref) # ""

\* the build states one command can lead to (every command but docker push)
Outcomes(b, st, cmd) ==
    CASE cmd.op = "export" ->
           {Advance(b, [st EXCEPT !.env = Put(@, cmd.var, Expand(cmd.arg, st.env))])}
      [] cmd.op = "git_symbolic_ref" ->
           {Advance(b, [st EXCEPT !.env = Put(@, cmd.var, GitSymbolicRef(st))])}
      [] cmd.op = "if_empty_name_rev" ->
           IF Lookup(st.env, cmd.var) = ""
           THEN {Advance(b, [st EXCEPT !.env = Put(@, cmd.var, SedDeleteAll(n, cmd.arg))]) :
                    n \in GitNameRev(st)}
           ELSE {Advance(b, st)}
      [] cmd.op = "if_regex" ->
           IF RegexSearch(Lookup(st.env, cmd.var), cmd.arg.pattern)
           THEN {Advance(b, [st EXCEPT !.env = Put(@, cmd.arg.export, cmd.arg.value)])}
           ELSE {Advance(b, st)}
      [] cmd.op = "env" -> {Advance(b, st)}
      [] cmd.op = "docker_build" ->
           IF ValidRef(Expand(cmd.arg, st.env))
           THEN {Advance(b, [st EXCEPT !.local = Put(@, Expand(cmd.arg, st.env),
                                                     st.env.CODEBUILD_RESOLVED_SOURCE_VERSION)])}
           ELSE {Fail(st)}
      [] cmd.op = "docker_tag" ->
           IF Expand(cmd.var, st.env) \in DOMAIN st.local /\ ValidRef(Expand(cmd.arg, st.env))
           THEN {Advance(b, [st EXCEPT !.local = Put(@, Expand(cmd.arg, st.env),
                                                     st.local[Expand(cmd.var, st.env)])])}
           ELSE {Fail(st)}
      [] cmd.op = "docker_login" -> {Advance(b, [st EXCEPT !.loggedIn = TRUE])}

RunCommand(b) ==
    /\ build[b].status = "RUNNING"
    /\ CurrentCommand(b).op # "docker_push"
    /\ \E st \in Outcomes(b, build[b], CurrentCommand(b)) : build' = [build EXCEPT ![b] = st]
    /\ UNCHANGED <<app, builders, envs, meta, buildCount, ecr, bus, exec, service, metaRun, deployed>>

-----------------------------------------------------------------------------
(* Registry pushes and events *)

Event(source, repositoryName, imageTag, actionType, result) ==
    [source |-> source,
     detail |-> ("action-type" :> actionType) @@ ("image-tag" :> imageTag)
                @@ ("repository-name" :> repositoryName) @@ ("result" :> result)]

\* the registry after tag `tag` of `repo` is moved to `image`
PutImage(registry, repo, tag, image) ==
    {i \in registry : ~(i.repo = repo /\ i.tag = tag)} \cup {[repo |-> repo, tag |-> tag, image |-> image]}

RECURSIVE PutImages(_, _, _)
PutImages(registry, local, refs) ==
    IF refs = {} THEN registry
    ELSE LET r == CHOOSE x \in refs : TRUE
         IN  PutImages(PutImage(registry, RepositoryOfUri(RefName(r)), RefTag(r), local[r]),
                       local, refs \ {r})

\* docker push NAME: every local tag of NAME, or (docker 20.10 and later) NAME:latest only
PushRefs(st, name, allTags) ==
    IF allTags THEN {r \in DOMAIN st.local : RefName(r) = name}
    ELSE {r \in DOMAIN st.local : r = name \o ":latest"}

DockerPush(b, allTags) ==
    /\ build[b].status = "RUNNING"
    /\ CurrentCommand(b).op = "docker_push"
    /\ LET st   == build[b]
           name == Expand(CurrentCommand(b).arg, st.env)
           refs == PushRefs(st, name, allTags)
       IN  IF st.loggedIn /\ refs # {}
           THEN /\ build' = [build EXCEPT ![b] = Advance(b, st)]
                /\ ecr' = PutImages(ecr, st.local, refs)
                /\ bus' = bus \cup {Event("aws.ecr", RepositoryOfUri(name), RefTag(r), "PUSH", "SUCCESS") :
                                       r \in refs}
           ELSE /\ build' = [build EXCEPT ![b] = Fail(st)]
                /\ UNCHANGED <<ecr, bus>>
    /\ UNCHANGED <<app, builders, envs, meta, buildCount, exec, service, metaRun, deployed>>

\* events of the registry (and of other sources) that no build of this model sends:
\* for each rule, the event it is written for and the events one field away from it
EventUniverse ==
    UNION {LET r == envs[p].eventPattern.detail["repository-name"]
               t == envs[p].eventPattern.detail["image-tag"]
           IN  { Event(src, repo, tag, act, res) :
                   src \in {"aws.ecr", "aws.s3"}, repo \in r \cup {"some-repo"},
                   tag \in t \cup {"some-tag"}, act \in {"PUSH", "DELETE"},
                   res \in {"SUCCESS", "FAILURE"} }
           : p \in DOMAIN envs}

NearEvents ==
    {e \in EventUniverse :
        \E p \in DOMAIN envs :
            Cardinality({k \in {"source", "action-type", "image-tag", "repository-name", "result"} :
                IF k = "source" THEN e.source \notin envs[p].eventPattern.source
                ELSE /\ k \in DOMAIN envs[p].eventPattern.detail
                     /\ e.detail[k] \notin envs[p].eventPattern.detail[k]}) <= 1}

\* the repositories the application creates or refers to
Repositories ==
    {builders[b].repositoryName : b \in DOMAIN builders} \cup {envs[p].repositoryName : p \in DOMAIN envs}

IsPush(e) == e.source = "aws.ecr" /\ e.detail["action-type"] = "PUSH" /\ e.detail["result"] = "SUCCESS"

\* something outside the builds acts on a registry (or another service emits an
\* event); events are evaluated one by one, and outside events are modelled one
\* at a time
ExternalEvent(e) ==
    /\ bus = {}
    /\ bus' = bus \cup {e}
    /\ ecr' = IF IsPush(e) /\ e.detail["repository-name"] \in Repositories
              THEN PutImage(ecr, e.detail["repository-name"], e.detail["image-tag"], "ext")
              ELSE ecr
    /\ UNCHANGED <<app, builders, envs, meta, build, buildCount, exec, service, metaRun, deployed>>

\* a lifecycle rule selects images by their tag status
RuleSelects(rule, x) ==
    \/ rule.tagStatus = "ANY"
    \/ rule.tagStatus = "TAGGED" /\ x.tag # ""
    \/ rule.tagStatus = "UNTAGGED" /\ x.tag = ""

\* the registry expires an image that a lifecycle rule of its repository selects
\* and that is older than the rule's age (time is not modelled: any image may
\* have reached it); the image goes with every tag it carries
LifecycleExpire(x) ==
    /\ x \in ecr
    /\ \E b \in DOMAIN builders \cap deployed :
          /\ builders[b].repositoryName = x.repo
          /\ \E k \in 1..Len(builders[b].lifecycleRules) : RuleSelects(builders[b].lifecycleRules[k], x)
    /\ ecr' = {y \in ecr : ~(y.repo = x.repo /\ y.image = x.image)}
    /\ UNCHANGED <<app, builders, envs, meta, build, buildCount, bus, exec, service, metaRun, deployed>>

-----------------------------------------------------------------------------
(* The event rule and the delivery pipeline *)

\* EventBridge: every field of the pattern must list the event's value
RuleMatches(pattern, e) ==
    /\ e.source \in pattern.source
    /\ \A k \in DOMAIN pattern.detail : k \in DOMAIN e.detail /\ e.detail[k] \in pattern.detail[k]

NewExecution(trigger) ==
    [stage |-> 1, status |-> "InProgress", trigger |-> trigger, artifacts |-> <<>>, trace |-> <<>>]

RECURSIVE SumLen(_, _)
SumLen(f, S) ==
    IF S = {} THEN 0
    ELSE LET x == CHOOSE y \in S : TRUE IN Len(f[x]) + SumLen(f, S \ {x})

ExecutionsStarted == SumLen(exec, DOMAIN exec)

RuleTargets(e) == {p \in DOMAIN envs \cap deployed : RuleMatches(envs[p].eventPattern, e)}

\* the event bus evaluates one event against every rule; a matching rule starts its pipeline
DeliverEvent(e) ==
    /\ e \in bus
    /\ ExecutionsStarted + Cardinality(RuleTargets(e)) <= MaxExecutions
    /\ bus' = bus \ {e}
    /\ exec' = [p \in DOMAIN envs |->
                   IF p \in RuleTargets(e) THEN Append(exec[p], NewExecution(e)) ELSE exec[p]]
    /\ UNCHANGED <<app, builders, envs, meta, build, buildCount, ecr, service, metaRun, deployed>>

ManualTrigger == Event("StartPipelineExecution", "", "", "", "")

\* an execution started by hand (or by the creation of the pipeline)
StartPipelineExecution(p) ==
    /\ p \in deployed
    /\ ExecutionsStarted < MaxExecutions
    /\ exec' = [exec EXCEPT ![p] = Append(@, NewExecution(ManualTrigger))]
    /\ UNCHANGED <<app, builders, envs, meta, build, buildCount, ecr, bus, service, metaRun, deployed>>

CurrentStage(p, i) == envs[p].stages[exec[p][i].stage]
CurrentAction(p, i) == CurrentStage(p, i).actions[1]

\* executions go through the stages in the order they started
CanRun(p, i, type) ==
    /\ i \in 1..Len(exec[p])
    /\ exec[p][i].status = "InProgress"
    /\ Len(CurrentStage(p, i).actions) = 1
    /\ CurrentAction(p, i).type = type
    /\ \A j \in 1..(i - 1) : exec[p][j].status = "InProgress" => exec[p][j].stage > exec[p][i].stage

StageSucceeded(p, i, artifacts) ==
    LET e == exec[p][i]
    IN  [e EXCEPT !.trace = Append(@, CurrentStage(p, i).stageName),
                  !.artifacts = artifacts,
                  !.stage = @ + 1,
                  !.status = IF e.stage = Len(envs[p].stages) THEN "Succeeded" ELSE "InProgress"]

StageFailed(p, i) ==
    [exec[p][i] EXCEPT !.trace = Append(@, CurrentStage(p, i).stageName), !.status = "Failed"]

\* Source: the image the watched tag names, if the repository has one
RunSource(p, i) ==
    /\ CanRun(p, i, "EcrSource")
    /\ LET a    == CurrentAction(p, i)
           imgs == {x \in ecr : x.repo = a.repositoryName /\ x.tag = a.imageTag}
       IN  exec' = [exec EXCEPT ![p][i] =
                       IF imgs # {}
                       THEN StageSucceeded(p, i, Put(exec[p][i].artifacts, a.output,
                                                     [imageDetail |-> CHOOSE x \in imgs : TRUE]))
                       ELSE StageFailed(p, i)]
    /\ UNCHANGED <<app, builders, envs, meta, build, buildCount, ecr, bus, service, metaRun, deployed>>

\* shell word splitting on spaces
RECURSIVE Words(_)
Words(s) ==
    IF s = "" THEN <<>>
    ELSE IF Char(s, 1) = " " THEN Words(SubSeq(s, 2, Len(s)))
    ELSE LET n == CHOOSE k \in 1..Len(s) :
                     /\ \A m \in 1..k : Char(s, m) # " "
                     /\ (k = Len(s) \/ Char(s, k + 1) = " ")
         IN  <<SubSeq(s, 1, n)>> \o Words(SubSeq(s, n + 1, Len(s)))

\* printf '[{"name":"<name>","imageUri":"%s"}]' args: the format is used once
\* per argument, and once when there is none
Printf(name, args) ==
    [k \in 1..(IF Len(args) = 0 THEN 1 ELSE Len(args)) |->
        [name |-> name, imageUri |-> IF k <= Len(args) THEN args[k] ELSE ""]]

RECURSIVE RunScript(_, _, _)
RunScript(commands, env, files) ==
    IF commands = <<>> THEN files
    ELSE RunScript(Tail(commands), env,
                   IF commands[1].op = "printf"
                   THEN Put(files, commands[1].var.file,
                            Printf(commands[1].var.name, Words(Expand(commands[1].arg, env))))
                   ELSE files)

\* mutant: a Build stage that also rolls the service to the image it names
RunBuildAndRoll(p, i) ==
    /\ CanRun(p, i, "CodeBuild")
    /\ LET a     == CurrentAction(p, i)
           files == RunScript(a.post_build, a.environmentVariables, <<>>)
           out   == [f \in a.artifactFiles \cap DOMAIN files |-> files[f]]
       IN  /\ exec' = [exec EXCEPT ![p][i] =
                          IF a.input \in DOMAIN exec[p][i].artifacts /\ a.artifactFiles \subseteq DOMAIN files
                          THEN StageSucceeded(p, i, Put(exec[p][i].artifacts, a.output, out))
                          ELSE StageFailed(p, i)]
           /\ service' = [service EXCEPT ![p].running = exec[p][i].artifacts[a.input].imageDetail.image]
    /\ UNCHANGED <<app, builders, envs, meta, build, buildCount, ecr, bus, metaRun, deployed>>

\* Build: run post_build, publish the artifact files as the output artifact
RunBuild(p, i) ==
    /\ CanRun(p, i, "CodeBuild")
    /\ LET a     == CurrentAction(p, i)
           files == RunScript(a.post_build, a.environmentVariables, <<>>)
           out   == [f \in a.artifactFiles \cap DOMAIN files |-> files[f]]
       IN  exec' = [exec EXCEPT ![p][i] =
                       IF a.input \in DOMAIN exec[p][i].artifacts /\ a.artifactFiles \subseteq DOMAIN files
                       THEN StageSucceeded(p, i, Put(exec[p][i].artifacts, a.output, out))
                       ELSE StageFailed(p, i)]
    /\ UNCHANGED <<app, builders, envs, meta, build, buildCount, ecr, bus, service, metaRun, deployed>>

Pullable(ref) ==
    {x \in ecr : x.repo = RepositoryOfUri(RefName(ref)) /\ x.tag = RefTag(ref)}

\* Deploy: every entry of the image file names a container of the task
\* definition and gives it its image; the service is rolled to it
RunDeploy(p, i) ==
    /\ CanRun(p, i, "EcsDeploy")
    /\ LET a  == CurrentAction(p, i)
           ok == /\ a.imageFile.artifact \in DOMAIN exec[p][i].artifacts
                 /\ a.imageFile.file \in DOMAIN exec[p][i].artifacts[a.imageFile.artifact]
           manifest == exec[p][i].artifacts[a.imageFile.artifact][a.imageFile.file]
       IN  IF /\ ok
              /\ Len(manifest) >= 1
              /\ \A k \in 1..Len(manifest) :
                    /\ manifest[k].name = envs[p].containerName
                    /\ ValidRef(manifest[k].imageUri)
                    /\ Pullable(manifest[k].imageUri) # {}
           THEN /\ exec' = [exec EXCEPT ![p][i] = StageSucceeded(p, i, exec[p][i].artifacts)]
                /\ service' = [service EXCEPT ![p] =
                      [image   |-> manifest[Len(manifest)].imageUri,
                       running |-> (CHOOSE x \in Pullable(manifest[Len(manifest)].imageUri) : TRUE).image]]
           ELSE /\ exec' = [exec EXCEPT ![p][i] = StageFailed(p, i)]
                /\ UNCHANGED service
    /\ UNCHANGED <<app, builders, envs, meta, build, buildCount, ecr, bus, metaRun, deployed>>

\* the action of the current stage fails for a reason of its own
FailStage(p, i) ==
    /\ i \in 1..Len(exec[p])
    /\ exec[p][i].status = "InProgress"
    /\ \A j \in 1..(i - 1) : exec[p][j].status = "InProgress" => exec[p][j].stage > exec[p][i].stage
    /\ exec' = [exec EXCEPT ![p][i] = StageFailed(p, i)]
    /\ UNCHANGED <<app, builders, envs, meta, build, buildCount, ecr, bus, service, metaRun, deployed>>

-----------------------------------------------------------------------------
(* The meta-pipeline: Synth, then the stages in the order they were added  *)

StubImage == "stub"

MetaStart ==
    /\ meta # <<>>
    /\ metaRun.status # "InProgress"
    /\ metaRun' = [stage |-> 1, status |-> "InProgress"]
    /\ UNCHANGED <<app, builders, envs, meta, build, buildCount, ecr, bus, exec, service, deployed>>

\* the declared names of a stack's resources
NamesOf(id) ==
    (IF id \in DOMAIN builders THEN builders[id].physicalNames ELSE {})
    \cup (IF id \in DOMAIN envs THEN envs[id].physicalNames ELSE {})

\* a stack cannot be created while a resource with one of its names exists
Collides(ids, existing) ==
    \E id \in ids : \E d \in existing \ {id} : NamesOf(id) \cap NamesOf(d) # {}

\* the stage's stacks are deployed; a stack deployed for the first time gets
\* the stub image as <repo>:latest (the push event may precede the rule)
MetaRunStage(seen) ==
    /\ metaRun.status = "InProgress"
    /\ LET ids   == {meta[metaRun.stage].stacks[k].id : k \in 1..Len(meta[metaRun.stage].stacks)}
           fresh == ids \ deployed
           repos == {envs[id].repositoryName : id \in fresh}
       IN  IF ~Synthesizes \/ Collides(fresh, deployed \cup fresh)
           THEN /\ metaRun' = [metaRun EXCEPT !.status = "Failed"]
                /\ UNCHANGED <<deployed, ecr, bus, service>>
           ELSE /\ deployed' = deployed \cup ids
                /\ service' = [p \in DOMAIN service |->
                                  IF p \in fresh THEN [service[p] EXCEPT !.running = StubImage]
                                  ELSE service[p]]
                /\ ecr' = ecr \cup {[repo |-> r, tag |-> "latest", image |-> StubImage] : r \in repos}
                /\ bus' = IF seen
                          THEN bus \cup {Event("aws.ecr", r, "latest", "PUSH", "SUCCESS") : r \in repos}
                          ELSE bus
                /\ metaRun' = IF metaRun.stage = Len(meta) THEN [metaRun EXCEPT !.status = "Succeeded"]
                              ELSE [metaRun EXCEPT !.stage = @ + 1]
    /\ UNCHANGED <<app, builders, envs, meta, build, buildCount, exec>>

MetaFail ==
    /\ metaRun.status = "InProgress"
    /\ metaRun' = [metaRun EXCEPT !.status = "Failed"]
    /\ UNCHANGED <<app, builders, envs, meta, build, buildCount, ecr, bus, exec, service, deployed>>

-----------------------------------------------------------------------------

\* the builder projects alone
NextBuild ==
    \/ \E b \in DOMAIN builders, branch \in Branches, commit \in Commits, detached \in BOOLEAN :
          WebhookPush(b, branch, commit, detached)
    \/ \E b \in DOMAIN builders, branch \in Branches, commit \in Commits, detached \in BOOLEAN :
          StartBuild(b, branch, commit, detached)
    \/ \E b \in DOMAIN builders : RunCommand(b)
    \/ \E b \in DOMAIN builders, allTags \in BOOLEAN : DockerPush(b, allTags)

\* registry events, event rules and delivery pipelines
NextDelivery ==
    \/ \E e \in NearEvents : ExternalEvent(e)
    \/ \E e \in bus : DeliverEvent(e)
    \/ \E p \in DOMAIN envs : StartPipelineExecution(p)
    \/ \E p \in DOMAIN envs, i \in 1..MaxExecutions : RunSource(p, i)
    \/ \E p \in DOMAIN envs, i \in 1..MaxExecutions : RunBuild(p, i)
    \/ \E p \in DOMAIN envs, i \in 1..MaxExecutions : RunDeploy(p, i)
    \/ \E p \in DOMAIN envs, i \in 1..MaxExecutions : FailStage(p, i)

\* the registries, with their lifecycle policy at work, and the executions
\* that registry events start
NextRegistry ==
    \/ \E e \in NearEvents : ExternalEvent(e)
    \/ \E e \in bus : DeliverEvent(e)
    \/ \E p \in DOMAIN envs, i \in 1..MaxExecutions : RunSource(p, i)
    \/ \E p \in DOMAIN envs, i \in 1..MaxExecutions : RunBuild(p, i)
    \/ \E p \in DOMAIN envs, i \in 1..MaxExecutions : RunDeploy(p, i)
    \/ \E x \in ecr : LifecycleExpire(x)

\* the meta-pipeline
NextMeta ==
    \/ \E b \in DOMAIN builders, branch \in Branches, commit \in Commits, detached \in BOOLEAN :
          WebhookPush(b, branch, commit, detached)
    \/ \E e \in bus : DeliverEvent(e)
    \/ MetaStart
    \/ \E seen \in BOOLEAN : MetaRunStage(seen)
    \/ MetaFail

Next == NextBuild \/ NextDelivery \/ NextRegistry \/ MetaStart \/ (\E seen \in BOOLEAN : MetaRunStage(seen)) \/ MetaFail

Spec == Init /\ [][Next]_vars

\* the meta-pipeline's execution after its stages from k on have run, starting
\* from the stacks `done`
RECURSIVE MetaOutcome(_, _)
MetaOutcome(k, done) ==
    IF k > Len(meta) THEN [deployed |-> done, run |-> [stage |-> Len(meta), status |-> "Succeeded"]]
    ELSE LET ids == {meta[k].stacks[j].id : j \in 1..Len(meta[k].stacks)}
         IN  IF ~Synthesizes \/ Collides(ids \ done, done \cup ids)
             THEN [deployed |-> done, run |-> [stage |-> k, status |-> "Failed"]]
             ELSE MetaOutcome(k + 1, done \cup ids)

\* the state after the application is deployed: by hand for the entry point,
\* by one execution of the meta-pipeline (whose stub-image pushes went unseen)
\* for the meta application
InitDeployed ==
    /\ app \in AppNames
    /\ builders = App(app).builders
    /\ envs = App(app).envs
    /\ meta = App(app).meta
    /\ build = [b \in DOMAIN builders |-> NoBuild]
    /\ buildCount = [b \in DOMAIN builders |-> 0]
    /\ deployed = IF meta = <<>>
                  THEN (IF Synthesizes THEN DOMAIN builders \cup DOMAIN envs ELSE {})
                  ELSE MetaOutcome(1, {}).deployed
    /\ ecr = IF meta = <<>> THEN {}
             ELSE {[repo |-> envs[p].repositoryName, tag |-> "latest", image |-> StubImage] :
                      p \in MetaOutcome(1, {}).deployed}
    /\ bus = {}
    /\ exec = [p \in DOMAIN envs |-> <<>>]
    /\ service = [p \in DOMAIN envs |->
                     [image |-> RepositoryUri(envs[p].containerImage.repositoryName)
                                \o ":" \o envs[p].containerImage.tag,
                      running |-> IF meta # <<>> /\ p \in MetaOutcome(1, {}).deployed
                                  THEN StubImage ELSE "none"]]
    /\ metaRun = IF meta = <<>> THEN IdleMeta ELSE MetaOutcome(1, {}).run

SpecBuild == InitDeployed /\ [][NextBuild]_vars

SpecDelivery == InitDeployed /\ [][NextDelivery]_vars

SpecRegistry == InitDeployed /\ [][NextRegistry]_vars

SpecMeta == Init /\ [][NextMeta]_vars

\* the entry point's application from a push to the rolled service: builds
\* started by the webhook, their pushes, the rules and the delivery pipelines, no stage failing for a
\* reason of its own
InitEntryPoint == InitDeployed /\ app = "bin"

NextEndToEnd ==
    \/ \E b \in DOMAIN builders, branch \in Branches, commit \in Commits, detached \in BOOLEAN :
          WebhookPush(b, branch, commit, detached)
    \/ \E b \in DOMAIN builders : RunCommand(b)
    \/ \E b \in DOMAIN builders, allTags \in BOOLEAN : DockerPush(b, allTags)
    \/ \E e \in bus : DeliverEvent(e)
    \/ \E p \in DOMAIN envs, i \in 1..MaxExecutions : RunSource(p, i)
    \/ \E p \in DOMAIN envs, i \in 1..MaxExecutions : RunBuild(p, i)
    \/ \E p \in DOMAIN envs, i \in 1..MaxExecutions : RunDeploy(p, i)

\* the steps of the event bus and of the pipelines
Delivery ==
    \/ \E e \in bus : DeliverEvent(e)
    \/ \E p \in DOMAIN envs, i \in 1..MaxExecutions : RunSource(p, i) \/ RunBuild(p, i) \/ RunDeploy(p, i)

\* the event bus and the pipelines do not stop while they have a step to take
SpecEndToEnd == InitEntryPoint /\ [][NextEndToEnd]_vars /\ WF_vars(Delivery)

-----------------------------------------------------------------------------
(* Properties of the ImageBuilderStack build script (SpecBuild)            *)

\* the builds of the ImageBuilderStack project whose pre_build phase is over
MappedBuilds ==
    {b \in DOMAIN builders : /\ BranchMappingOf(app) # <<>>
                             /\ build[b].status # "NONE"
                             /\ build[b].phase = "build"}

ResolvedBranch(b) == Lookup(build[b].env, "CODEBUILD_GIT_BRANCH")

\* the entries of the mapping, as written, whose pattern the branch matches
MatchingWritten(branch) ==
    {i \in 1..Len(BranchMappingOf(app)) : RegexSearch(branch, BranchMappingOf(app)[i][1])}

\* the same, by position in Object.entries(branchMapping)
MatchingEntries(branch) ==
    {i \in 1..Len(BranchMappingOf(app)) :
        RegexSearch(branch, ObjectEntries(BranchMappingOf(app))[i][1])}

Greatest(S) == CHOOSE i \in S : \A j \in S : j <= i

\* C2: a branch that matches exactly one pattern key of branchMapping has, after
\* the pre_build commands, ENV_TAG equal to the tag mapped to that pattern.
C2_OneMatchSetsEnvTag ==
    \A b \in MappedBuilds :
        Cardinality(MatchingWritten(ResolvedBranch(b))) = 1 =>
            /\ "ENV_TAG" \in DOMAIN build[b].env
            /\ \A i \in MatchingWritten(ResolvedBranch(b)) :
                  build[b].env["ENV_TAG"] = BranchMappingOf(app)[i][2]

C2_Witness ==
    \E b \in MappedBuilds :
        /\ build[b].branch = "hotfix/master"
        /\ Cardinality(MatchingWritten(ResolvedBranch(b))) = 1
        /\ Lookup(build[b].env, "ENV_TAG") = "prod"

\* C3: a branch that matches no pattern key leaves ENV_TAG unset after the
\* pre_build commands.
C3_NoMatchLeavesEnvTagUnset ==
    \A b \in MappedBuilds :
        MatchingWritten(ResolvedBranch(b)) = {} => "ENV_TAG" \notin DOMAIN build[b].env

C3_Witness ==
    \E b \in MappedBuilds :
        /\ build[b].branch = "feature"
        /\ MatchingWritten(ResolvedBranch(b)) = {}
        /\ "ENV_TAG" \notin DOMAIN build[b].env

\* C4: a branch that matches two or more pattern keys gets the tag of the
\* matching entry that is last in the order of Object.entries(branchMapping).
C4_LastMatchWins ==
    \A b \in MappedBuilds :
        Cardinality(MatchingEntries(ResolvedBranch(b))) >= 2 =>
            /\ "ENV_TAG" \in DOMAIN build[b].env
            /\ build[b].env["ENV_TAG"] =
                  ObjectEntries(BranchMappingOf(app))[Greatest(MatchingEntries(ResolvedBranch(b)))][2]

\* release/1 under the mapping {'^release/.*': uat, develop: dev, '1': dev}:
\* the key '1' is written last but comes first in Object.entries
C4_Witness ==
    \E b \in MappedBuilds :
        /\ app = "binAlt"
        /\ build[b].branch = "release/1"
        /\ MatchingWritten(ResolvedBranch(b)) = {1, 3}
        /\ Lookup(build[b].env, "ENV_TAG") = "uat"

\* the entry whose tag the build script gave the branch: the last matching one
MappedEntry(branch) == Greatest(MatchingEntries(branch))

\* C8 (as claimed): for every mapping entry and every branch the build script
\* maps to that entry's tag, the webhook filter group generated for the entry
\* accepts a push to the branch; and a build started by the webhook is on a
\* branch that matches a pattern.
C8_WebhookCoversMapping ==
    \A b \in MappedBuilds :
        /\ MatchingEntries(ResolvedBranch(b)) # {} =>
              WebhookAccepts(builders[b].webhookFilters[MappedEntry(ResolvedBranch(b))],
                             "PUSH", build[b].branch)
        /\ build[b].trigger = "webhook" => MatchingEntries(ResolvedBranch(b)) # {}

\* the position, in a build phase, of the command that applies the environment tag
EnvTagCommand == 4

NoMatchBuilds == {b \in MappedBuilds : MatchingWritten(ResolvedBranch(b)) = {}}

\* C10 (as claimed): a build on a branch that matches no pattern is not stopped
\* and goes on to tag and push with the empty environment tag.
C10_NoMatchBuildGoesOn ==
    \A b \in NoMatchBuilds : build[b].status # "FAILED"

\* C10 (amended): on a branch that matches no pattern no fallback tag is
\* substituted and the script does not stop the build: the commit and build-number
\* tags are applied, the environment-tag command runs with an empty tag, docker
\* rejects the reference, and the build fails there with nothing pushed.
C10_NoMatchBuildFailsAtEnvTag ==
    \A b \in NoMatchBuilds :
        /\ "ENV_TAG" \notin DOMAIN build[b].env
        /\ Expand(builders[b].build[EnvTagCommand].arg, build[b].env)
              = builders[b].environmentVariables.ECR_REPO_URI \o ":"
        /\ build[b].pc <= EnvTagCommand
        /\ build[b].status # "SUCCEEDED"
        /\ build[b].status = "FAILED" => build[b].pc = EnvTagCommand
        /\ \A k \in 1..Len(build[b].log) : build[b].log[k] # "docker_push"

C10_Witness ==
    \E b \in NoMatchBuilds :
        /\ build[b].status = "FAILED"
        /\ build[b].pc = EnvTagCommand
        /\ DOMAIN build[b].local =
              { build[b].env.IMAGE_NAME \o ":" \o build[b].env.TAG,
                build[b].env.ECR_REPO_URI \o ":" \o build[b].env.TAG,
                build[b].env.ECR_REPO_URI \o ":" \o build[b].env.BUILD_NUMBER }

-----------------------------------------------------------------------------
(* Properties of the delivery pipeline (SpecDelivery)                      *)

StageNames == <<"Source", "Build", "Deploy">>

\* the pipeline declares the three stages, with one action each
ThreeStages(p) ==
    /\ Len(envs[p].stages) = Len(StageNames)
    /\ \A k \in 1..Len(StageNames) :
          /\ envs[p].stages[k].stageName = StageNames[k]
          /\ Len(envs[p].stages[k].actions) = 1

\* one step of one execution: nothing, or the next stage in order is run and
\* the execution fails there, goes on, or (after Deploy) succeeds
ExecutionStep(e, f) ==
    \/ f = e
    \/ /\ e.status = "InProgress"
       /\ Len(e.trace) < Len(StageNames)
       /\ f.trace = Append(e.trace, StageNames[Len(e.trace) + 1])
       /\ \/ f.status = "Failed"
          \/ f.status = "InProgress" /\ Len(f.trace) < Len(StageNames)
          \/ f.status = "Succeeded" /\ f.trace = StageNames

\* C1: every execution of a delivery pipeline runs Source, then Build, then
\* Deploy, each stage holding one action and run at most once; it ends after
\* Deploy succeeds, and a failed stage halts it for good (no later stage, no retry).
C1_StagesInOrder ==
    [][\A p \in DOMAIN envs :
          /\ ThreeStages(p)
          /\ Len(exec'[p]) >= Len(exec[p])
          /\ \A i \in 1..Len(exec'[p]) :
                IF i <= Len(exec[p]) THEN ExecutionStep(exec[p][i], exec'[p][i])
                ELSE exec'[p][i].trace = <<>> /\ exec'[p][i].status = "InProgress"]_vars

C1_Witness ==
    \E p \in DOMAIN envs : \E i \in 1..Len(exec[p]) :
        exec[p][i].status = "Succeeded" /\ exec[p][i].trace = StageNames

\* the image URI of the stack's target tag
TargetImageUri(p) ==
    RepositoryUri(envs[p].containerImage.repositoryName) \o ":" \o envs[p].containerImage.tag

BuildAction(p) == envs[p].stages[2].actions[1]
DeployAction(p) == envs[p].stages[3].actions[1]

\* C5: the imagedefinitions.json the Build stage writes has exactly one entry,
\* whose name is the container name of the stack's task definition and whose
\* imageUri is <registry-uri>:<target tag> (latest in ApplicationStack); the
\* Deploy stage reads that file from the Build stage's output artifact.
C5_ManifestShape ==
    \A p \in DOMAIN envs :
        /\ DeployAction(p).imageFile.artifact = BuildAction(p).output
        /\ DeployAction(p).imageFile.file \in BuildAction(p).artifactFiles
        /\ meta # <<>> => envs[p].containerImage.tag = "latest"
        /\ \A i \in 1..Len(exec[p]) :
              BuildAction(p).output \in DOMAIN exec[p][i].artifacts =>
                 LET out == exec[p][i].artifacts[BuildAction(p).output]
                 IN  /\ DOMAIN out = {"imagedefinitions.json"}
                     /\ out["imagedefinitions.json"] =
                           << [name |-> envs[p].containerName, imageUri |-> TargetImageUri(p)] >>
                     /\ exec[p][i].status = "Succeeded" => service[p].image = TargetImageUri(p)

C5_Witness ==
    \E p \in DOMAIN envs : \E i \in 1..Len(exec[p]) :
        /\ "buildOutput" \in DOMAIN exec[p][i].artifacts
        /\ Len(exec[p][i].artifacts["buildOutput"]["imagedefinitions.json"]) = 1
        /\ exec[p][i].status = "Succeeded"
        /\ service[p].running = "ext"

\* C6: the event rule starts an execution of a pipeline only for an event
\* whose source is aws.ecr, action-type PUSH, result SUCCESS, repository-name
\* the stack's repository and image-tag the stack's target tag.
C6_RuleStartsOnlyOnPush ==
    \A p \in DOMAIN envs : \A i \in 1..Len(exec[p]) :
        exec[p][i].trigger # ManualTrigger =>
            /\ exec[p][i].trigger.source = "aws.ecr"
            /\ exec[p][i].trigger.detail["action-type"] = "PUSH"
            /\ exec[p][i].trigger.detail["result"] = "SUCCESS"
            /\ exec[p][i].trigger.detail["repository-name"] = envs[p].repositoryName
            /\ exec[p][i].trigger.detail["image-tag"] = envs[p].containerImage.tag

C6_Witness ==
    \E p \in DOMAIN envs : \E i \in 1..Len(exec[p]) :
        /\ exec[p][i].trigger = Event("aws.ecr", envs[p].repositoryName, envs[p].containerImage.tag,
                                      "PUSH", "SUCCESS")
        /\ \A q \in DOMAIN envs \ {p} : exec[q] = <<>>

\* C7: every environment stack declares auto-scaling of the task count between
\* 1 and 4, with a 70% CPU target and a 70% memory target, each with 60-second
\* scale-in and scale-out cooldowns.
C7_ScalingDeclared ==
    \A p \in DOMAIN envs :
        /\ envs[p].scaling.minCapacity = 1
        /\ envs[p].scaling.maxCapacity = 4
        /\ \A m \in {"cpu", "memory"} :
              /\ envs[p].scaling[m].targetUtilizationPercent = 70
              /\ envs[p].scaling[m].scaleInCooldown = 60
              /\ envs[p].scaling[m].scaleOutCooldown = 60

C7_Witness ==
    /\ app = "meta"
    /\ \E p \in deployed \cap DOMAIN envs : exec[p] # <<>> /\ envs[p].scaling.maxCapacity = 4

-----------------------------------------------------------------------------
(* Properties of the meta-pipeline (SpecMeta)                              *)

StackIds(stage) == {stage.stacks[k].id : k \in 1..Len(stage.stacks)}

\* Synth on master of the infra repository, then prod from master, then
\* staging from develop, each with one ApplicationStack whose webhook filters
\* on the stage's branch
MetaDeclared ==
    /\ Len(meta) = 3
    /\ meta[1].id = "Synth"
    /\ meta[1].input = [repo |-> "shustariov-andrey/cdk-nest-docker", branch |-> "master"]
    /\ meta[1].stacks = <<>>
    /\ meta[2].branchName = "master" /\ meta[2].tags.environment = "prod"
    /\ meta[3].branchName = "develop" /\ meta[3].tags.environment = "staging"
    /\ \A k \in 2..3 :
          /\ Len(meta[k].stacks) = 1
          /\ builders[meta[k].stacks[1].id].webhookFilters
                = << [event |-> "PUSH", headRef |-> "refs/heads/" \o meta[k].branchName] >>

-----------------------------------------------------------------------------
(* Properties of synthesis and of the declared resources                   *)

EntryPointStacks == {"AwsNestDockerStack", "AwsNestDockerDevStack", "ImageBuilderStack"}

ConstructsOf(id) == IF id \in DOMAIN builders THEN builders[id].constructs ELSE envs[id].constructs

RegistryImages(b) == {x \in ecr : x.repo = builders[b].repositoryName}

\* C12: every registry this repository creates (ImageBuilderStack,
\* ApplicationStack) carries exactly one lifecycle rule, which expires images
\* older than 30 days whatever their tag status, so also the image that
\* carries an environment's deployment tag.
C12_OneLifecycleRule ==
    \A b \in DOMAIN builders :
        /\ Len(builders[b].lifecycleRules) = 1
        /\ builders[b].lifecycleRules[1].maxImageAgeDays = 30
        /\ builders[b].lifecycleRules[1].tagStatus = "ANY"
        /\ \A x \in RegistryImages(b) : RuleSelects(builders[b].lifecycleRules[1], x)
        /\ \A x \in RegistryImages(b) : b \in deployed => ENABLED LifecycleExpire(x)

\* the image a service was rolled to, under its deployment tag, has been expired
C12_Witness ==
    \E p \in DOMAIN envs : \E i \in 1..Len(exec[p]) :
        /\ exec[p][i].status = "Succeeded"
        /\ service[p].running = "ext"
        /\ RefTag(service[p].image) = envs[p].containerImage.tag
        /\ Pullable(service[p].image) = {}

-----------------------------------------------------------------------------
(* Properties of the build and of branch resolution (SpecBuild)            *)

\* the builds of the ImageBuilderStack project
MappingBuilds == {b \in DOMAIN builders : BranchMappingOf(app) # <<>> /\ build[b].status # "NONE"}

BuildPhaseOrder ==
    <<"docker_build", "docker_tag", "docker_tag", "docker_tag", "docker_login", "docker_push">>

Count(seq, x) == Cardinality({k \in 1..Len(seq) : seq[k] = x})

\* the references the three tagging steps give the built image
ThreeTags(b) ==
    { build[b].env.ECR_REPO_URI \o ":" \o build[b].env.TAG,
      build[b].env.ECR_REPO_URI \o ":" \o build[b].env.BUILD_NUMBER,
      build[b].env.ECR_REPO_URI \o ":" \o build[b].env.ENV_TAG }

\* C13: in an ImageBuilderStack build the pre_build phase is over before any
\* build-phase command runs; the image is built once, then tagged with the
\* commit, the build number and the environment tag, and the three tagging
\* steps and the registry login precede the push.
C13_BuildThenThreeTagsThenPush ==
    \A b \in MappingBuilds :
        LET st == build[b]
            n  == Len(builders[b].pre_build)
        IN  /\ st.phase = "pre_build" =>
                  /\ Len(st.log) < n
                  /\ st.local = <<>> /\ ~st.loggedIn
                  /\ \A k \in 1..Len(st.log) : st.log[k] \notin {BuildPhaseOrder[j] : j \in 1..Len(BuildPhaseOrder)}
            /\ st.phase = "build" =>
                  /\ Len(st.log) >= n
                  /\ st.log[n] = "env"
                  /\ {"TAG", "BUILD_NUMBER", "CODEBUILD_GIT_BRANCH"} \subseteq DOMAIN st.env
                  /\ Len(st.log) - n <= Len(BuildPhaseOrder)
                  /\ SubSeq(st.log, n + 1, Len(st.log)) = SubSeq(BuildPhaseOrder, 1, Len(st.log) - n)
            /\ Count(st.log, "docker_build") <= 1
            /\ (st.phase = "build" /\ builders[b].build[st.pc].op = "docker_push") =>
                  /\ Count(st.log, "docker_tag") = 3
                  /\ st.loggedIn
            /\ Count(st.log, "docker_push") = 1 =>
                  /\ Count(st.log, "docker_tag") = 3
                  /\ st.loggedIn
                  /\ "ENV_TAG" \in DOMAIN st.env
                  /\ DOMAIN st.local = ThreeTags(b) \cup {st.env.IMAGE_NAME \o ":" \o st.env.TAG}
                  /\ \A r \in DOMAIN st.local : st.local[r] = st.env.CODEBUILD_RESOLVED_SOURCE_VERSION
                  /\ \A r \in ThreeTags(b) :
                        [repo |-> builders[b].repositoryName, tag |-> RefTag(r),
                         image |-> st.env.CODEBUILD_RESOLVED_SOURCE_VERSION] \in ecr

C13_Witness ==
    \E b \in MappingBuilds :
        /\ build[b].status = "SUCCEEDED"
        /\ build[b].branch = "develop"
        /\ Cardinality(ThreeTags(b)) = 3
        /\ {x.tag : x \in {y \in ecr : y.image = "c2"}} = {"c2", "1", "dev"}

\* the position of the command of pre_build that ends the branch resolution
ResolveCommand == 4

\* C14: CODEBUILD_GIT_BRANCH is the symbolic-ref short name of HEAD when that
\* is not empty; only when it is empty (detached HEAD) it is replaced by the
\* name-rev lookup with every remotes/origin/ removed; and the branch is
\* resolved before any mapping entry is tested against it.
C14_BranchResolution ==
    \A b \in MappingBuilds :
        LET st == build[b]
        IN  /\ \A k \in 1..Len(st.log) : st.log[k] = "if_regex" =>
                  /\ k > ResolveCommand
                  /\ st.log[ResolveCommand - 1] = "git_symbolic_ref"
                  /\ st.log[ResolveCommand] = "if_empty_name_rev"
            /\ Len(st.log) = ResolveCommand - 1 =>
                  st.env.CODEBUILD_GIT_BRANCH = (IF st.detached THEN "" ELSE st.branch)
            /\ Len(st.log) >= ResolveCommand =>
                  IF ~st.detached THEN st.env.CODEBUILD_GIT_BRANCH = st.branch
                  ELSE /\ \E n \in {st.branch, "remotes/origin/" \o st.branch} :
                             \/ st.env.CODEBUILD_GIT_BRANCH = n /\ ~StartsWithAt(n, 1, "remotes/origin/")
                             \/ "remotes/origin/" \o st.env.CODEBUILD_GIT_BRANCH = n
                       /\ ~StartsWithAt(st.env.CODEBUILD_GIT_BRANCH, 1, "remotes/origin/")

C14_Witness ==
    \E b \in MappingBuilds :
        /\ build[b].detached
        /\ build[b].branch = "release/1"
        /\ build[b].phase = "build"
        /\ build[b].env.CODEBUILD_GIT_BRANCH = "release/1"
        /\ Lookup(build[b].env, "ENV_TAG") = "uat"

-----------------------------------------------------------------------------
(* Properties of one environment and of the environments together          *)

SourceAction(p) == envs[p].stages[1].actions[1]

\* the manifest the stack's Build action writes
ManifestOf(p) ==
    RunScript(BuildAction(p).post_build, BuildAction(p).environmentVariables, <<>>)["imagedefinitions.json"]

\* C15: within one environment stack one tag (props.imageTag; latest in
\* ApplicationStack) and one repository (props.ecrRepoName) are used by the
\* container image of the task definition, the EcrSourceAction, the event rule
\* and the imageUri of the manifest.
C15_OneTagOneRepository ==
    \A p \in DOMAIN envs :
        LET tag  == envs[p].containerImage.tag
            repo == envs[p].containerImage.repositoryName
        IN  /\ meta = <<>> => tag = envs[p].stackTags.env /\ repo = envs[p].repositoryName
            /\ meta # <<>> => tag = "latest"
            /\ SourceAction(p).imageTag = tag
            /\ SourceAction(p).repositoryName = repo
            /\ envs[p].eventPattern.detail["image-tag"] = {tag}
            /\ envs[p].eventPattern.detail["repository-name"] = {repo}
            /\ Len(ManifestOf(p)) = 1
            /\ RefTag(ManifestOf(p)[1].imageUri) = tag
            /\ RepositoryOfUri(RefName(ManifestOf(p)[1].imageUri)) = repo
            /\ \A i \in 1..Len(exec[p]) :
                  /\ "sourceOutput" \in DOMAIN exec[p][i].artifacts =>
                        /\ exec[p][i].artifacts["sourceOutput"].imageDetail.tag = tag
                        /\ exec[p][i].artifacts["sourceOutput"].imageDetail.repo = repo
                  /\ exec[p][i].status = "Succeeded" =>
                        /\ service[p].image = RepositoryUri(repo) \o ":" \o tag
                        /\ exec[p][i].trigger # ManualTrigger =>
                              exec[p][i].trigger.detail["image-tag"] = tag

\* an environment with props other than the entry point's, rolled by a push of its tag
C15_Witness ==
    /\ app = "binAlt"
    /\ \E p \in DOMAIN envs : \E i \in 1..Len(exec[p]) :
          /\ envs[p].containerImage = [repositoryName |-> "other-repo", tag |-> "dev"]
          /\ exec[p][i].status = "Succeeded"
          /\ exec[p][i].trigger = Event("aws.ecr", "other-repo", "dev", "PUSH", "SUCCESS")
          /\ service[p].image = "ecr/other-repo:dev"

EntryPointEnvironments == {"AwsNestDockerStack", "AwsNestDockerDevStack"}

MappingTags == {BranchMappingOf(app)[i][2] : i \in 1..Len(BranchMappingOf(app))}

TagOf(p) == envs[p].containerImage.tag

\* the environment reads the builder's registry and its tag is a mapped one
Wired(p) ==
    /\ \A b \in DOMAIN builders : envs[p].repositoryName = builders[b].repositoryName
    /\ TagOf(p) \in MappingTags

\* a build on a branch mapped to the environment's tag has pushed its image
PushedFor(p) ==
    \E b \in DOMAIN builders :
        /\ build[b].status = "SUCCEEDED"
        /\ Lookup(build[b].env, "ENV_TAG") = TagOf(p)

\* the service runs the image that carries the environment's tag
RolledTo(p) ==
    /\ \E i \in 1..Len(exec[p]) : exec[p][i].status = "Succeeded"
    /\ [repo |-> envs[p].repositoryName, tag |-> TagOf(p), image |-> service[p].running] \in ecr

\* an execution of an environment's pipeline was started by a push of its own tag
OwnTagOnly(p) ==
    /\ \A i \in 1..Len(exec[p]) : exec[p][i].trigger.detail["image-tag"] = TagOf(p)
    /\ exec[p] # <<>> => \E x \in ecr : x.repo = envs[p].repositoryName /\ x.tag = TagOf(p)

\* C16: in the entry point's configuration every environment reads the
\* builder's registry under a tag of the mapping, so that a successful build
\* and push on a branch mapped to the tag leads to an execution of that
\* environment's pipeline and, no stage failing, to its service rolled to the
\* pushed image; and a push of one environment's tag starts no pipeline of
\* another environment.
C16_EndToEnd ==
    /\ [](\A p \in EntryPointEnvironments : Wired(p) /\ OwnTagOnly(p))
    /\ \A p \in EntryPointEnvironments : PushedFor(p) ~> RolledTo(p)

\* develop was built and pushed, the dev service runs the commit, prod is untouched
C16_Witness ==
    /\ app = "bin"
    /\ build["ImageBuilderStack"].branch = "develop"
    /\ build["ImageBuilderStack"].trigger = "webhook"
    /\ PushedFor("AwsNestDockerDevStack")
    /\ RolledTo("AwsNestDockerDevStack")
    /\ service["AwsNestDockerDevStack"].running = build["ImageBuilderStack"].env.TAG
    /\ exec["AwsNestDockerStack"] = <<>>

\* C17 (as claimed): no two environment instances of one application share a
\* declared physical name: two ECSEnvironmentStack instances with the same
\* appName and different imageTag differ in their cluster, task-role, service,
\* image-definitions-project and pipeline names, and the ApplicationStack
\* instances of the production and staging sub-stages have no declared
\* registry, cluster, role, service, project or pipeline name in common.
C17_NoSharedNames ==
    \A p, q \in DOMAIN envs :
        p # q =>
            /\ NamesOf(p) \cap NamesOf(q) = {}
            /\ meta = <<>> =>
                  /\ envs[p].stackTags.project = envs[q].stackTags.project
                  /\ envs[p].stackTags.env # envs[q].stackTags.env
                  /\ \A f \in {"clusterName", "roleName", "serviceName", "pipelineName"} :
                        envs[p][f] # envs[q][f]
                  /\ BuildAction(p).projectName # BuildAction(q).projectName

\* the stage an execution is at, by name
StageAt(e) == StageNames[e.stage]

\* C18: within an execution of a delivery pipeline only the Deploy stage changes
\* the image the service runs: Source and Build leave the service as it is,
\* and an execution that halts in Source or Build leaves it running what it ran.
C18_OnlyDeployRolls ==
    [][\A p \in DOMAIN envs :
          /\ service'[p] # service[p] =>
                \E i \in 1..Len(exec[p]) :
                    /\ exec[p][i].status = "InProgress"
                    /\ StageAt(exec[p][i]) = "Deploy"
                    /\ exec'[p][i].status = "Succeeded"
          /\ \A i \in 1..Len(exec[p]) :
                /\ exec'[p][i] # exec[p][i] /\ StageAt(exec[p][i]) \in {"Source", "Build"}
                      => service' = service
                /\ exec'[p][i].status = "Failed" /\ exec[p][i].status = "InProgress"
                      => service' = service]_vars

\* an execution took the pushed image in Source and halted in Build; the
\* service still runs what it ran before
C18_Witness ==
    \E p \in DOMAIN envs : \E i \in 1..Len(exec[p]) :
        /\ exec[p][i].status = "Failed"
        /\ exec[p][i].trace = <<"Source", "Build">>
        /\ exec[p][i].artifacts["sourceOutput"].imageDetail.image = "ext"
        /\ service[p].running \in {"none", StubImage}

====
